---- MODULE Spec2Model ----
(***************************************************************************)
(* Adaptive assessment engine: topic selection, prerequisite checking,     *)
(* difficulty selection, mastery update and the session documents the      *)
(* route handlers read and write.                                          *)
(*                                                                         *)
(* Numbers.  Mastery values are kept in ten-thousandths (Scale = 1.0), so  *)
(* that every product baseIncrement * learningRate * difficultyMult of     *)
(* calculateMasteryUpdate is an integer.  Scores are kept in hundredths    *)
(* (100 = 1.0).  Topic-selection scores are kept in thousandths.  The      *)
(* arithmetic is exact; IEEE rounding of the JavaScript doubles is not     *)
(* modelled.  The values drawn below stay away from the points where the   *)
(* doubles order differently (a mastery of exactly 0.57 against the        *)
(* threshold 0.3 + 0.9 * 0.3, which is 0.5700000000000001 as a double).    *)
(***************************************************************************)
EXTENDS Integers, Sequences, FiniteSets, TLC

VARIABLES sessions, now, resp, args, ret, inflight

vars == <<sessions, now, resp, args, ret, inflight>>

(***************************************************************************)
(* Bounds of the model                                                     *)
(***************************************************************************)
MaxKeys == 3
MaxScores == 6
MaxSessions == 1
MaxHistory == 2
MaxQuestions == 1
MaxWords == 2

(***************************************************************************)
(* Units                                                                   *)
(***************************************************************************)
Scale == 10000

TypeError == "TypeError"

(***************************************************************************)
(* OllamaService constructor: the catalog and the prerequisite map         *)
(***************************************************************************)
defaultKnowledgeKeys ==
  << "Arrays", "Linked Lists", "Stacks", "Queues", "Trees",
     "Binary Search Trees", "Hash Tables", "Graphs", "Linear Search",
     "Binary Search", "Sorting Algorithms", "Dynamic Programming",
     "Recursion", "Big O Notation" >>

Catalog == { defaultKnowledgeKeys[i] : i \in 1..Len(defaultKnowledgeKeys) }

\* weights are in tenths
weightedPrerequisites ==
  [ t \in { "Binary Search Trees", "Graphs", "Dynamic Programming",
            "Hash Tables", "Sorting Algorithms", "Recursion", "Trees",
            "Stacks", "Queues" } |->
      CASE t = "Binary Search Trees" -> << <<"Trees", 8>>, <<"Binary Search", 6>> >>
        [] t = "Graphs" -> << <<"Trees", 7>> >>
        [] t = "Dynamic Programming" -> << <<"Recursion", 9>> >>
        [] t = "Hash Tables" -> << <<"Arrays", 6>> >>
        [] t = "Sorting Algorithms" -> << <<"Arrays", 8>> >>
        [] t = "Recursion" -> << <<"Big O Notation", 4>> >>
        [] t = "Trees" -> << <<"Linked Lists", 5>> >>
        [] t = "Stacks" -> << <<"Arrays", 4>> >>
        [] t = "Queues" -> << <<"Arrays", 4>> >> ]

(***************************************************************************)
(* JavaScript objects keyed by topic: a sequence of [topic, mastery]       *)
(* entries with distinct topics, in insertion order (Object.keys order).   *)
(***************************************************************************)
ObjKeys(obj) == [ i \in 1..Len(obj) |-> obj[i].topic ]

ObjHas(obj, t) == \E i \in 1..Len(obj) : obj[i].topic = t

\* obj[t] for a key t of obj
ObjGet(obj, t) == obj[CHOOSE i \in 1..Len(obj) : obj[i].topic = t].mastery

\* obj[t] || d : an absent key (undefined) and 0 are falsy
ObjGetOr(obj, t, d) ==
  IF ObjHas(obj, t) /\ ObjGet(obj, t) # 0 THEN ObjGet(obj, t) ELSE d

(***************************************************************************)
(* OllamaService.checkPrerequisites                                        *)
(***************************************************************************)
requiredThreshold(weight) == 3000 + weight * 300

\* variant: a prerequisite exactly at its threshold counts as missing
RECURSIVE missingPrereqsFrom_atThreshold(_, _, _)
missingPrereqsFrom_atThreshold(prereqs, i, knowledgeState) ==
  IF i > Len(prereqs) THEN << >>
  ELSE LET prereq == prereqs[i][1]
           weight == prereqs[i][2]
           mastery == ObjGetOr(knowledgeState, prereq, 0)
           rest == missingPrereqsFrom_atThreshold(prereqs, i + 1, knowledgeState)
       IN  IF mastery <= requiredThreshold(weight)
             THEN <<prereq>> \o rest
             ELSE rest

RECURSIVE missingPrereqsFrom(_, _, _)
missingPrereqsFrom(prereqs, i, knowledgeState) ==
  IF i > Len(prereqs) THEN << >>
  ELSE LET prereq == prereqs[i][1]
           weight == prereqs[i][2]
           mastery == ObjGetOr(knowledgeState, prereq, 0)
           rest == missingPrereqsFrom(prereqs, i + 1, knowledgeState)
       IN  IF mastery < requiredThreshold(weight)
             THEN <<prereq>> \o rest
             ELSE rest

checkPrerequisites(topic, knowledgeState) ==
  IF topic \notin DOMAIN weightedPrerequisites
    THEN [canProceed |-> TRUE, missingPrereqs |-> << >>]
    ELSE LET missingPrereqs ==
               missingPrereqsFrom(weightedPrerequisites[topic], 1, knowledgeState)
         IN  [canProceed |-> Len(missingPrereqs) = 0,
              missingPrereqs |-> missingPrereqs]

(***************************************************************************)
(* OllamaService.adjustDifficulty                                          *)
(***************************************************************************)
\* variant: the first n elements, slice(0, n)
SliceLast_fromStart(s, n) ==
  IF Len(s) <= n THEN s ELSE SubSeq(s, 1, n)

\* Array.prototype.slice(-n)
SliceLast(s, n) ==
  IF Len(s) <= n THEN s ELSE SubSeq(s, Len(s) - n + 1, Len(s))

RECURSIVE SumSeq(_)
SumSeq(s) == IF Len(s) = 0 THEN 0 ELSE s[1] + SumSeq(Tail(s))

\* variant: the whole history instead of the last 5 scores
recentScoresOf_all(performanceHistory) == performanceHistory

recentScoresOf(performanceHistory) == SliceLast(performanceHistory, 5)

\* theta = sum / n (or 0.5); theta < 0.3 is sum < 30 * n in hundredths
adjustDifficulty(topic, mastery, performanceHistory) ==
  LET recentScores == recentScoresOf(performanceHistory)
      n == Len(recentScores)
      sum == SumSeq(recentScores)
      num == IF n > 0 THEN sum ELSE 50
      den == IF n > 0 THEN n ELSE 1
  IN  IF num < 30 * den THEN "easy"
      ELSE IF num < 60 * den THEN "medium"
      ELSE "hard"

(***************************************************************************)
(* OllamaService.selectNextTopic                                           *)
(* sessionHistory is a function from some topics to arrays.                *)
(***************************************************************************)
neverAttempted(topic, sessionHistory) ==
  topic \notin DOMAIN sessionHistory \/ Len(sessionHistory[topic]) = 0

masteryGap(mastery) ==
  IF mastery < 3000 THEN 30 ELSE IF mastery < 6000 THEN 20 ELSE 10

\* variant: the 0.1 penalty applied to the mastery-gap term only
topicScore_gapOnly(topic, knowledgeState, sessionHistory) ==
  LET mastery == ObjGet(knowledgeState, topic)
      s1 == IF neverAttempted(topic, sessionHistory) THEN 400 ELSE 0
      gap == masteryGap(mastery) * 10
  IN  IF checkPrerequisites(topic, knowledgeState).canProceed
        THEN s1 + gap + 300
        ELSE s1 + gap \div 10

\* variant: a topic with unmet prerequisites keeps its score (no * 0.1)
topicScore_noPenalty(topic, knowledgeState, sessionHistory) ==
  LET mastery == ObjGet(knowledgeState, topic)
      s1 == IF neverAttempted(topic, sessionHistory) THEN 400 ELSE 0
      s2 == s1 + masteryGap(mastery) * 10
  IN  IF checkPrerequisites(topic, knowledgeState).canProceed
        THEN s2 + 300
        ELSE s2

\* variant: no exploration bonus for a never attempted topic
topicScore_noExploration(topic, knowledgeState, sessionHistory) ==
  LET mastery == ObjGet(knowledgeState, topic)
      s2 == masteryGap(mastery) * 10
  IN  IF checkPrerequisites(topic, knowledgeState).canProceed
        THEN s2 + 300
        ELSE s2 \div 10

\* score * 0.1 of a score in hundredths is kept exact by scoring in thousandths
topicScore(topic, knowledgeState, sessionHistory) ==
  LET mastery == ObjGet(knowledgeState, topic)
      s1 == IF neverAttempted(topic, sessionHistory) THEN 400 ELSE 0
      s2 == s1 + masteryGap(mastery) * 10
  IN  IF checkPrerequisites(topic, knowledgeState).canProceed
        THEN s2 + 300
        ELSE s2 \div 10

\* variant: the accumulator wins a tie
RECURSIVE reduceMax_firstWins(_, _, _, _, _)
reduceMax_firstWins(keys, i, a, knowledgeState, sessionHistory) ==
  IF i > Len(keys) THEN a
  ELSE LET b == keys[i]
       IN  reduceMax_firstWins(keys, i + 1,
             IF topicScore(a, knowledgeState, sessionHistory)
                  >= topicScore(b, knowledgeState, sessionHistory)
               THEN a ELSE b,
             knowledgeState, sessionHistory)

RECURSIVE reduceMax(_, _, _, _, _)
reduceMax(keys, i, a, knowledgeState, sessionHistory) ==
  IF i > Len(keys) THEN a
  ELSE LET b == keys[i]
       IN  reduceMax(keys, i + 1,
             IF topicScore(a, knowledgeState, sessionHistory)
                  > topicScore(b, knowledgeState, sessionHistory)
               THEN a ELSE b,
             knowledgeState, sessionHistory)

\* the local object topicScores, one entry per key of knowledgeState
topicScoresOf(knowledgeState, sessionHistory) ==
  [ i \in 1..Len(knowledgeState) |->
      [topic |-> knowledgeState[i].topic,
       score |-> topicScore(knowledgeState[i].topic, knowledgeState, sessionHistory)] ]

\* variant: the prerequisite list of a topic is read without the guard for
\* topics that have none
selectNextTopic_unguarded(knowledgeState, sessionHistory) ==
  LET keys == ObjKeys(knowledgeState)
  IN  IF Len(keys) = 0 THEN TypeError
      ELSE IF \E i \in 1..Len(keys) : keys[i] \notin DOMAIN weightedPrerequisites
        THEN TypeError
      ELSE reduceMax(keys, 2, keys[1], knowledgeState, sessionHistory)

\* Array.prototype.reduce without an initial value throws on an empty array
selectNextTopic(knowledgeState, sessionHistory) ==
  LET keys == ObjKeys(knowledgeState)
  IN  IF Len(keys) = 0 THEN TypeError
      ELSE reduceMax(keys, 2, keys[1], knowledgeState, sessionHistory)

(***************************************************************************)
(* OllamaService.calculateMasteryUpdate                                    *)
(* learningRate and difficultyMult in tenths, baseIncrement in hundredths: *)
(* the increment is in ten-thousandths.                                    *)
(***************************************************************************)
Max(a, b) == IF a > b THEN a ELSE b
Min(a, b) == IF a < b THEN a ELSE b

learningRateOf(currentMastery) ==
  IF currentMastery < 3000 THEN 8
  ELSE IF currentMastery < 6000 THEN 6
  ELSE 4

\* variant: a score below 0.3 costs nothing
baseIncrementOf_noPenalty(score) ==
  IF score >= 90 THEN 15
  ELSE IF score >= 70 THEN 10
  ELSE IF score >= 50 THEN 5
  ELSE 0

baseIncrementOf(score) ==
  IF score >= 90 THEN 15
  ELSE IF score >= 70 THEN 10
  ELSE IF score >= 50 THEN 5
  ELSE IF score >= 30 THEN 0
  ELSE -8

\* difficultyMultipliers[difficulty] || 1.0
difficultyMultOf(difficulty) ==
  CASE difficulty = "easy" -> 7
    [] difficulty = "medium" -> 10
    [] difficulty = "hard" -> 14
    [] OTHER -> 10

\* variant: the bounds are not applied
calculateMasteryUpdate_unbounded(currentMastery, score, difficulty) ==
  currentMastery
    + baseIncrementOf(score) * learningRateOf(currentMastery) * difficultyMultOf(difficulty)

calculateMasteryUpdate(currentMastery, score, difficulty) ==
  LET increment ==
        baseIncrementOf(score) * learningRateOf(currentMastery) * difficultyMultOf(difficulty)
  IN  Max(0, Min(Scale, currentMastery + increment))

(***************************************************************************)
(* OllamaService.parseScoreFromFeedback                                    *)
(* A feedback is the text, a sequence of characters, together with what    *)
(* each of the four numeric patterns captures in it: NoMatch, or the       *)
(* parseFloat of the captured digits in hundredths.                        *)
(***************************************************************************)
NoMatch == -1

Str_excellent == <<"e", "x", "c", "e", "l", "l", "e", "n", "t">>
Str_perfect == <<"p", "e", "r", "f", "e", "c", "t">>
Str_good == <<"g", "o", "o", "d">>
Str_correct == <<"c", "o", "r", "r", "e", "c", "t">>
Str_incorrect == <<"i", "n", "c", "o", "r", "r", "e", "c", "t">>
Str_satisfactory == <<"s", "a", "t", "i", "s", "f", "a", "c", "t", "o", "r", "y">>
Str_okay == <<"o", "k", "a", "y">>
Str_needs_improvement == <<"n", "e", "e", "d", "s", " ", "i", "m", "p", "r", "o", "v", "e", "m", "e", "n", "t">>
Str_Wrong == <<"W", "r", "o", "n", "g">>
Str_fine == <<"f", "i", "n", "e">>
Str_wrong == <<"w", "r", "o", "n", "g">>

\* String.prototype.toLowerCase, on the letters that occur
toLowerCase(text) ==
  [ i \in 1..Len(text) |-> IF text[i] = "W" THEN "w" ELSE text[i] ]

\* String.prototype.includes
includes(text, keyword) ==
  \E i \in 1..(Len(text) - Len(keyword) + 1) :
     SubSeq(text, i, i + Len(keyword) - 1) = keyword

\* the loop over the patterns: the first captured value within [0, 1]
RECURSIVE firstScoreInRange(_, _)
firstScoreInRange(captures, i) ==
  IF i > Len(captures) THEN NoMatch
  ELSE IF captures[i] # NoMatch /\ captures[i] >= 0 /\ captures[i] <= 100
    THEN captures[i]
  ELSE firstScoreInRange(captures, i + 1)

\* the fallback qualitative assessment
qualitativeScore(feedbackLower) ==
  IF includes(feedbackLower, Str_excellent) \/ includes(feedbackLower, Str_perfect)
    THEN 95
  ELSE IF includes(feedbackLower, Str_good) \/ includes(feedbackLower, Str_correct)
    THEN 80
  ELSE IF includes(feedbackLower, Str_satisfactory) \/ includes(feedbackLower, Str_okay)
    THEN 60
  ELSE IF includes(feedbackLower, Str_needs_improvement) THEN 40
  ELSE IF includes(feedbackLower, Str_incorrect) \/ includes(feedbackLower, Str_wrong)
    THEN 20
  ELSE 50

parseScoreFromFeedback(feedback) ==
  LET score == firstScoreInRange(feedback.captures, 1)
  IN  IF score # NoMatch THEN score
      ELSE qualitativeScore(toLowerCase(feedback.text))

(***************************************************************************)
(* Session documents (models/Session.js)                                   *)
(*   knowledgeStates : sequence of [topic, mastery, streak]                *)
(*   questionHistory : sequence of [topic, score, difficulty, timestamp]   *)
(*   currentStreaks, learningVelocity : maps keyed by topic                *)
(* A velocity is a rational [num, den].  The collection `sessions` is in   *)
(* creation order, and a session's id is its position.                     *)
(***************************************************************************)
Absent == "absent"

ZeroVelocity == [num |-> 0, den |-> 1]

EmptyMap == [ x \in {} |-> 0 ]

MapSet(m, k, v) == [ x \in (DOMAIN m) \cup {k} |-> IF x = k THEN v ELSE m[x] ]

NewSession(userId) ==
  [user |-> userId, knowledgeStates |-> << >>, questionHistory |-> << >>,
   currentStreaks |-> EmptyMap, learningVelocity |-> EmptyMap, isCompleted |-> FALSE]

\* knowledgeStates.find((ks) => ks.topic === topic): an index, or 0
findKnowledgeState(session, topic) ==
  IF \E i \in 1..Len(session.knowledgeStates) : session.knowledgeStates[i].topic = topic
    THEN CHOOSE i \in 1..Len(session.knowledgeStates) :
           /\ session.knowledgeStates[i].topic = topic
           /\ \A j \in 1..(i - 1) : session.knowledgeStates[j].topic # topic
    ELSE 0

\* SessionSchema.methods.updateKnowledgeState
updateKnowledgeState(session, topic, newMastery, streak) ==
  LET i == findKnowledgeState(session, topic)
      entry == [topic |-> topic, mastery |-> newMastery, streak |-> streak]
  IN  [session EXCEPT
         !.knowledgeStates = IF i # 0 THEN [@ EXCEPT ![i] = entry] ELSE Append(@, entry),
         !.currentStreaks = MapSet(@, topic, streak)]

topicQuestionsOf(history, topic) == SelectSeq(history, LAMBDA q : q.topic = topic)

\* variant: the record is put in front of the stored ones (unshift)
addQuestionHistory_unshift(session, topic, score, difficulty) ==
  [session EXCEPT !.questionHistory =
     <<[topic |-> topic, score |-> score,
        difficulty |-> IF difficulty = Absent THEN "Medium" ELSE difficulty,
        timestamp |-> now]>> \o @]

\* SessionSchema.methods.addQuestionHistory; difficulty defaults to "Medium"
addQuestionHistory(session, topic, score, difficulty) ==
  LET record == [topic |-> topic, score |-> score,
                 difficulty |-> IF difficulty = Absent THEN "Medium" ELSE difficulty,
                 timestamp |-> now]
      history == Append(session.questionHistory, record)
      topicQuestions == topicQuestionsOf(history, topic)
      hoursDiff == topicQuestions[Len(topicQuestions)].timestamp - topicQuestions[1].timestamp
      velocity == IF hoursDiff > 0
                    THEN [num |-> Len(topicQuestions), den |-> hoursDiff]
                    ELSE ZeroVelocity
  IN  [session EXCEPT
         !.questionHistory = history,
         !.learningVelocity =
            IF Len(topicQuestions) >= 2 THEN MapSet(@, topic, velocity) ELSE @]

\* the validators save() runs on the attempt records pushed since the
\* document was loaded: the difficulty enum and the score range.  (The
\* min/max validators on mastery never reject: every handler writes a value
\* it has already bounded.)
validates(loaded, session) ==
  \A i \in (Len(loaded.questionHistory) + 1)..Len(session.questionHistory) :
     /\ session.questionHistory[i].difficulty \in {"Easy", "Medium", "Hard"}
     /\ session.questionHistory[i].score >= 0
     /\ session.questionHistory[i].score <= 100

\* Session.findById
findById(sessionId) == IF sessionId \in 1..Len(sessions) THEN sessionId ELSE 0

sessionsOfUser(userId) == { i \in 1..Len(sessions) : sessions[i].user = userId }

\* Session.findOne({ user }).sort({ createdAt: -1 })
findLatestOfUser(userId) ==
  IF sessionsOfUser(userId) = {} THEN 0
  ELSE CHOOSE i \in sessionsOfUser(userId) : \A j \in sessionsOfUser(userId) : j <= i

\* Session.findOne({ user })
findOneOfUser(userId) ==
  IF sessionsOfUser(userId) = {} THEN 0
  ELSE CHOOSE i \in sessionsOfUser(userId) : \A j \in sessionsOfUser(userId) : i <= j

\* the lookup shared by /end, /submit-question and /update-stats; a request
\* without a sessionId carries 0
findByIdOrLatest(sessionId, userId) ==
  IF sessionId # 0 THEN findById(sessionId)
  ELSE IF userId # Absent THEN findLatestOfUser(userId)
  ELSE 0

\* session.save(): the stored document is replaced when the validators pass
Saved(i, session) == [sessions EXCEPT ![i] = session]

TotalHistory ==
  LET RECURSIVE Sum(_)
      Sum(i) == IF i = 0 THEN 0 ELSE Len(sessions[i].questionHistory) + Sum(i - 1)
  IN  Sum(Len(sessions))

(***************************************************************************)
(* evaluateAnswer of the two services.  The backend either answers with a  *)
(* score or fails.                                                         *)
(***************************************************************************)
\* OllamaService.evaluateAnswer: a failed generation is rethrown
ollamaEvaluateAnswer(backendOk, score) ==
  IF backendOk THEN [threw |-> FALSE, score |-> score, difficulty |-> Absent]
  ELSE [threw |-> TRUE, score |-> 0, difficulty |-> Absent]

\* generateFallbackEvaluation: Math.random() * 0.4 + 0.3
generateFallbackEvaluation(randomScore) ==
  [threw |-> FALSE, score |-> randomScore, difficulty |-> "Medium"]

\* evaluateAnswer of the service backed by the Python API: the inner catch
\* answers a failed call with the fallback evaluation
pythonEvaluateAnswer(backendOk, score, randomScore) ==
  IF backendOk THEN [threw |-> FALSE, score |-> score, difficulty |-> Absent]
  ELSE generateFallbackEvaluation(randomScore)

(***************************************************************************)
(* Requests                                                                *)
(***************************************************************************)
Pending == [pending |-> TRUE]
Users == {"u1"}
ReqTopics == {"Arrays", "Programming"}
ReqDifficulties == {"Easy", "hard"}
BackendScores == {20, 95}
\* what a call of the generation backend does: it fails, or answers with a score
BackendOutcomes ==
  {[ok |-> FALSE, score |-> 0]} \cup {[ok |-> TRUE, score |-> x] : x \in BackendScores}
FallbackScores == {30, 65}
ClientMasteries == {0, 9500}
SessionIds == 0..MaxSessions

Response(op, status, backend, topic, mastery) ==
  [op |-> op, status |-> status, backend |-> backend, topic |-> topic,
   newMastery |-> mastery, difficulty |-> "none", sessionId |-> 0]

NoResp == Response("none", 0, "none", "none", 0)
NoArgs == [fn |-> "none"]
\* no handler is between two of its awaits
NoRequests == << >>

Init ==
  /\ sessions = << >>
  /\ now = 0
  /\ resp = NoResp
  /\ args = NoArgs
  /\ ret = Pending
  /\ inflight = NoRequests

\* OllamaService.startSession: session data with a knowledge state for every
\* key of defaultKnowledge (all 0.0); nothing is stored
startSession(userId) ==
  [userId |-> userId,
   knowledgeStates |->
     [ i \in 1..Len(defaultKnowledgeKeys) |->
         [topic |-> defaultKnowledgeKeys[i], mastery |-> 0, streak |-> 0] ],
   questionHistory |-> << >>]

\* SessionService.createSession: the knowledge states are taken from
\* Object.keys(initialData.student_knowledge || {})
createSession(userId, initialData) ==
  LET student_knowledge ==
        IF "student_knowledge" \in DOMAIN initialData
          THEN initialData.student_knowledge ELSE << >>
  IN  [NewSession(userId) EXCEPT
         !.knowledgeStates =
            [ i \in 1..Len(student_knowledge) |->
                [topic |-> student_knowledge[i].topic,
                 mastery |-> student_knowledge[i].mastery,
                 streak |-> 0] ]]

\* POST /start, while the collection holds fewer than `limit` sessions
StartWithin(limit) ==
  /\ Len(sessions) < limit
  /\ \E userId \in Users :
       /\ sessions' = Append(sessions, NewSession(userId))
       /\ resp' = Response("start", 200, "none", "none", 0)
  /\ UNCHANGED <<now, args, ret, inflight>>

\* POST /start
Start == StartWithin(MaxSessions)

\* POST /assessment/start: the user's session is found or created
AssessmentStartWithin(limit) ==
  /\ \E userId \in Users :
       LET i == findOneOfUser(userId)
       IN  /\ i = 0 => Len(sessions) < limit
           /\ sessions' = IF i # 0 THEN sessions
                          ELSE Append(sessions, createSession(userId, startSession(userId)))
           /\ resp' = Response("assessment/start", 200, "none", "none", 0)
  /\ UNCHANGED <<now, args, ret, inflight>>

\* POST /assessment/start
AssessmentStart == AssessmentStartWithin(MaxSessions)

\* POST /start, the legacy endpoint of the second router
LegacyStartWithin(limit) ==
  /\ Len(sessions) < limit
  /\ \E userId \in Users :
       /\ sessions' = Append(sessions, createSession(userId, startSession(userId)))
       /\ resp' = Response("legacy/start", 200, "none", "none", 0)
  /\ UNCHANGED <<now, args, ret, inflight>>

\* POST /start (legacy)
LegacyStart == LegacyStartWithin(MaxSessions)

\* POST /end, the sessionId of the request drawn from `ids`
EndAmong(ids) ==
  /\ \E sessionId \in ids, userId \in Users :
       LET i == findByIdOrLatest(sessionId, userId)
       IN  IF i = 0
             THEN /\ resp' = Response("end", 404, "none", "none", 0)
                  /\ UNCHANGED sessions
             ELSE /\ sessions' = Saved(i, [sessions[i] EXCEPT !.isCompleted = TRUE])
                  /\ resp' = Response("end", 200, "none", "none", 0)
  /\ UNCHANGED <<now, args, ret, inflight>>

\* POST /end
End == EndAmong(SessionIds)

\* what POST /submit-question does to the loaded document before saving it
submitQuestionUpdate(session, topic, difficultyOr, currentMastery, score) ==
  LET newMastery == calculateMasteryUpdate(currentMastery, score, difficultyOr)
      s1 == addQuestionHistory(session, topic, score, difficultyOr)
      k == findKnowledgeState(s1, topic)
      streak == IF score >= 70
                  THEN (IF k # 0 THEN s1.knowledgeStates[k].streak ELSE 0) + 1
                  ELSE 0
  IN  updateKnowledgeState(s1, topic, newMastery, streak)

\* POST /submit-question
SubmitQuestion ==
  /\ TotalHistory < MaxHistory
  /\ \E sessionId \in SessionIds, userId \in Users, topic \in ReqTopics,
        difficulty \in ReqDifficulties \cup {Absent},
        currentMastery \in ClientMasteries, backend \in BackendOutcomes :
       LET i == findByIdOrLatest(sessionId, userId)
           evaluation == ollamaEvaluateAnswer(backend.ok, backend.score)
           difficultyOr == IF difficulty = Absent THEN "medium" ELSE difficulty
           newMastery == calculateMasteryUpdate(currentMastery, evaluation.score, difficultyOr)
           s2 == submitQuestionUpdate(sessions[i], topic, difficultyOr, currentMastery,
                                      evaluation.score)
       IN  IF i = 0
             THEN /\ resp' = Response("submit-question", 404, "none", "none", 0)
                  /\ UNCHANGED sessions
           ELSE IF evaluation.threw
             THEN /\ resp' = Response("submit-question", 500, "fail", "none", 0)
                  /\ UNCHANGED sessions
           ELSE IF ~validates(sessions[i], s2)
             THEN /\ resp' = Response("submit-question", 500, "ok", "none", 0)
                  /\ UNCHANGED sessions
           ELSE /\ sessions' = Saved(i, s2)
                /\ resp' = Response("submit-question", 200, "ok", "none", newMastery)
  /\ UNCHANGED <<now, args, ret, inflight>>

\* the mastery change of POST /update-stats, in ten-thousandths
updateStatsMasteryChange(score, difficulty) ==
  LET masteryChange == IF score >= 80 THEN 15
                       ELSE IF score >= 60 THEN 10
                       ELSE IF score >= 40 THEN 5
                       ELSE -5
      lower == CASE difficulty \in {"Easy", "easy"} -> "easy"
                 [] difficulty \in {"Medium", "medium"} -> "medium"
                 [] difficulty \in {"Hard", "hard"} -> "hard"
                 [] OTHER -> difficulty
      difficultyMultiplier == CASE lower = "easy" -> 8
                                [] lower = "medium" -> 10
                                [] lower = "hard" -> 12
                                [] OTHER -> 10
  IN  masteryChange * difficultyMultiplier * 10

\* POST /update-stats (users router)
UpdateStats ==
  /\ TotalHistory < MaxHistory
  /\ \E sessionId \in SessionIds, userId \in Users, topic \in ReqTopics,
        difficulty \in ReqDifficulties, score \in BackendScores,
        result \in {"Correct", "Incorrect"} :
       LET i == IF sessionId # 0 THEN findById(sessionId) ELSE findLatestOfUser(userId)
           s1 == addQuestionHistory(sessions[i], topic, score, difficulty)
           k == findKnowledgeState(s1, topic)
           stored == IF k # 0 THEN s1.knowledgeStates[k].mastery ELSE 0
           currentMastery == IF stored # 0 THEN stored ELSE 3000
           currentStreak == IF k # 0 THEN s1.knowledgeStates[k].streak ELSE 0
           newMastery ==
             Max(0, Min(Scale, currentMastery + updateStatsMasteryChange(score, difficulty)))
           newStreak == IF result = "Correct" THEN currentStreak + 1 ELSE 0
           s2 == updateKnowledgeState(s1, topic, newMastery, newStreak)
           currentVelocity == IF topic \in DOMAIN s2.learningVelocity
                                THEN s2.learningVelocity[topic] ELSE ZeroVelocity
           s3 == [s2 EXCEPT
                    !.learningVelocity =
                       MapSet(@, topic, [num |-> currentVelocity.num + currentVelocity.den,
                                         den |-> currentVelocity.den]),
                    !.currentStreaks = MapSet(@, topic, newStreak)]
       IN  IF i = 0
             THEN /\ resp' = Response("update-stats", 404, "none", "none", 0)
                  /\ UNCHANGED sessions
           ELSE IF ~validates(sessions[i], s3)
             THEN /\ resp' = Response("update-stats", 500, "none", "none", 0)
                  /\ UNCHANGED sessions
           ELSE /\ sessions' = Saved(i, s3)
                /\ resp' = Response("update-stats", 200, "none", "none", newMastery)
  /\ UNCHANGED <<now, args, ret, inflight>>

\* POST /session/update
SessionUpdate ==
  /\ TotalHistory < MaxHistory
  /\ \E userId \in Users, topic \in ReqTopics, difficulty \in ReqDifficulties,
        score \in BackendScores :
       LET i == findOneOfUser(userId)
           performanceRecord == [topic |-> topic, score |-> score,
                                 difficulty |-> difficulty, timestamp |-> now]
           s1 == [sessions[i] EXCEPT !.questionHistory = Append(@, performanceRecord)]
           k == findKnowledgeState(s1, topic)
           ks == s1.knowledgeStates[k]
           newMastery == calculateMasteryUpdate(ks.mastery, score, difficulty)
           streak == IF score >= 70 THEN Max(0, ks.streak) + 1 ELSE Min(0, ks.streak) - 1
           s2 == IF k # 0
                   THEN [s1 EXCEPT !.knowledgeStates[k] =
                           [topic |-> topic, mastery |-> newMastery, streak |-> streak]]
                   ELSE s1
       IN  IF i = 0
             THEN /\ resp' = Response("session/update", 404, "none", "none", 0)
                  /\ UNCHANGED sessions
           ELSE IF ~validates(sessions[i], s2)
             THEN /\ resp' = Response("session/update", 500, "none", "none", 0)
                  /\ UNCHANGED sessions
           ELSE /\ sessions' = Saved(i, s2)
                /\ resp' = Response("session/update", 200, "none", "none",
                                     IF k # 0 THEN newMastery ELSE 0)
  /\ UNCHANGED <<now, args, ret, inflight>>

\* POST /answer/evaluate: a failed save is logged and the evaluation is
\* answered all the same
AnswerEvaluate ==
  /\ TotalHistory < MaxHistory
  /\ \E userId \in Users, topic \in ReqTopics,
        difficulty \in ReqDifficulties \cup {Absent},
        currentMastery \in ClientMasteries, backend \in BackendOutcomes :
       LET i == findOneOfUser(userId)
           evaluation == ollamaEvaluateAnswer(backend.ok, backend.score)
           difficultyOr == IF difficulty = Absent THEN "medium" ELSE difficulty
           newMastery == calculateMasteryUpdate(currentMastery, evaluation.score, difficultyOr)
           questionRecord == [topic |-> topic, score |-> evaluation.score,
                              difficulty |-> difficultyOr, timestamp |-> now]
           s1 == [sessions[i] EXCEPT !.questionHistory = Append(@, questionRecord)]
           k == findKnowledgeState(s1, topic)
           ks == s1.knowledgeStates[k]
           streak == IF evaluation.score >= 70
                       THEN Max(0, ks.streak) + 1 ELSE Min(0, ks.streak) - 1
           s2 == IF k # 0
                   THEN [s1 EXCEPT !.knowledgeStates[k] =
                           [topic |-> topic, mastery |-> newMastery, streak |-> streak]]
                   ELSE s1
       IN  IF i = 0
             THEN /\ resp' = Response("answer/evaluate", 404, "none", "none", 0)
                  /\ UNCHANGED sessions
           ELSE IF evaluation.threw
             THEN /\ resp' = Response("answer/evaluate", 500, "fail", "none", 0)
                  /\ UNCHANGED sessions
           ELSE /\ sessions' = IF validates(sessions[i], s2) THEN Saved(i, s2) ELSE sessions
                /\ resp' = Response("answer/evaluate", 200, "ok", "none", newMastery)
  /\ UNCHANGED <<now, args, ret, inflight>>

\* the mastery adjustment of updateKnowledgeStateFromQuestion, by
\* correctness and difficulty?.toLowerCase()
masteryAdjustmentOf(isCorrect, difficulty) ==
  LET lower == CASE difficulty \in {"Easy", "easy"} -> "easy"
                 [] difficulty \in {"Medium", "medium"} -> "medium"
                 [] difficulty \in {"Hard", "hard"} -> "hard"
                 [] OTHER -> difficulty
  IN  IF isCorrect
        THEN CASE lower = "easy" -> 500
               [] lower = "medium" -> 1000
               [] lower = "hard" -> 1500
               [] OTHER -> 1000
        ELSE CASE lower = "easy" -> -1500
               [] lower = "medium" -> -1000
               [] lower = "hard" -> -500
               [] OTHER -> -1000

\* AssessmentService.updateKnowledgeStateFromQuestion.  For a topic without
\* a knowledge state the handler pushes a plain object {mastery: 0, streak:
\* 0} and goes on to change that object; the array stores the subdocument
\* the push has cast from it, which the later assignments do not reach, so
\* only the streak map receives the new streak.
updateKnowledgeStateFromQuestion(session, topic, isCorrect, difficulty) ==
  LET k0 == findKnowledgeState(session, topic)
      pushed == [topic |-> topic, mastery |-> 0, streak |-> 0]
      s1 == IF k0 # 0 THEN session
            ELSE [session EXCEPT !.knowledgeStates = Append(@, pushed)]
      ks == IF k0 # 0 THEN session.knowledgeStates[k0] ELSE pushed
      streak == IF isCorrect THEN ks.streak + 1 ELSE 0
      mastery == Max(0, Min(Scale, ks.mastery + masteryAdjustmentOf(isCorrect, difficulty)))
  IN  [s1 EXCEPT
         !.knowledgeStates =
            IF k0 # 0
              THEN [@ EXCEPT ![k0] = [topic |-> topic, mastery |-> mastery,
                                      streak |-> streak]]
              ELSE @,
         !.currentStreaks = MapSet(@, topic, streak)]

\* one question of an assessment: addQuestionHistory, then
\* updateKnowledgeStateFromQuestion
recordQuestion(session, questionData) ==
  updateKnowledgeStateFromQuestion(
    addQuestionHistory(session, questionData.topic,
                       IF questionData.isCorrect THEN 100 ELSE 0,
                       questionData.difficulty),
    questionData.topic, questionData.isCorrect, questionData.difficulty)

QuestionData ==
  [topic : ReqTopics, isCorrect : BOOLEAN, difficulty : ReqDifficulties \cup {Absent}]

\* AssessmentService.updateSessionWithQuestion
UpdateSessionWithQuestion ==
  /\ TotalHistory < MaxHistory
  /\ \E sessionId \in SessionIds, questionData \in QuestionData :
       LET i == findById(sessionId)
           s1 == recordQuestion(sessions[i], questionData)
       IN  IF i = 0 \/ ~validates(sessions[i], s1)
             THEN /\ resp' = Response("updateSessionWithQuestion", 500, "none", "none", 0)
                  /\ UNCHANGED sessions
             ELSE /\ sessions' = Saved(i, s1)
                  /\ resp' = Response("updateSessionWithQuestion", 200, "none", "none", 0)
  /\ UNCHANGED <<now, args, ret, inflight>>

RECURSIVE recordQuestions(_, _)
recordQuestions(session, questions) ==
  IF Len(questions) = 0 THEN session
  ELSE recordQuestions(recordQuestion(session, Head(questions)), Tail(questions))

\* AssessmentService.completeAssessment: the session is found or created
CompleteAssessment ==
  /\ TotalHistory < MaxHistory
  /\ \E sessionId \in SessionIds, userId \in Users,
        questions \in UNION { [1..n -> QuestionData] : n \in 0..MaxQuestions } :
       LET i == findById(sessionId)
           loaded == IF i # 0 THEN sessions[i] ELSE NewSession(userId)
           s1 == recordQuestions(loaded, questions)
           s2 == [s1 EXCEPT !.isCompleted = TRUE]
       IN  /\ i = 0 => Len(sessions) < MaxSessions
           /\ IF ~validates(loaded, s2)
                THEN /\ resp' = Response("completeAssessment", 500, "none", "none", 0)
                     /\ UNCHANGED sessions
                ELSE /\ sessions' = IF i # 0 THEN Saved(i, s2) ELSE Append(sessions, s2)
                     /\ resp' = Response("completeAssessment", 200, "none", "none", 0)
  /\ UNCHANGED <<now, args, ret, inflight>>

\* SessionService.updateSession: findOneAndUpdate pushes the attempt without
\* running validators; evaluation.newMastery is undefined, so no mastery is
\* set
updateSession(userId, topic, evaluation) ==
  LET i == findOneOfUser(userId)
      record == [topic |-> topic, score |-> evaluation.score,
                 difficulty |-> evaluation.difficulty, timestamp |-> now]
  IN  IF i = 0 THEN sessions
      ELSE [sessions EXCEPT ![i].questionHistory = Append(@, record)]

\* POST /evaluate of routes/assessment.js (service backed by the Python API)
ServerEvaluate ==
  /\ TotalHistory < MaxHistory
  /\ \E userId \in Users, topic \in ReqTopics, backend \in BackendOutcomes,
        randomScore \in FallbackScores :
       LET evaluation == pythonEvaluateAnswer(backend.ok, backend.score, randomScore)
       IN  /\ sessions' = updateSession(userId, topic, evaluation)
           /\ resp' = Response("server/evaluate", 200,
                                IF backend.ok THEN "ok" ELSE "fail", "none", 0)
  /\ UNCHANGED <<now, args, ret, inflight>>

\* POST /evaluate, the legacy endpoint of the second router (OllamaService)
LegacyEvaluate ==
  /\ TotalHistory < MaxHistory
  /\ \E userId \in Users, topic \in ReqTopics, backend \in BackendOutcomes :
       LET evaluation == ollamaEvaluateAnswer(backend.ok, backend.score)
       IN  IF evaluation.threw
             THEN /\ resp' = Response("legacy/evaluate", 500, "fail", "none", 0)
                  /\ UNCHANGED sessions
             ELSE /\ sessions' = updateSession(userId, topic, evaluation)
                  /\ resp' = Response("legacy/evaluate", 200, "ok", "none", 0)
  /\ UNCHANGED <<now, args, ret, inflight>>

\* the knowledgeState object a handler builds from session.knowledgeStates
knowledgeStateObject(session) ==
  [ i \in 1..Len(session.knowledgeStates) |->
      [topic |-> session.knowledgeStates[i].topic,
       mastery |-> session.knowledgeStates[i].mastery] ]

\* POST /next-question.  The schema defines no getSessionHistory,
\* getCurrentMastery or getTopicHistory, so the optional calls yield {} and
\* 0.3.
NextQuestion ==
  /\ \E sessionId \in SessionIds :
       LET i == IF sessionId # 0 THEN findById(sessionId) ELSE 0
           currentMastery == 3000
           Answer(nextTopic, backendOk) ==
             IF nextTopic = TypeError
               THEN Response("next-question", 500, "none", "none", 0)
             ELSE IF ~backendOk
               THEN Response("next-question", 500, "fail", "none", 0)
             ELSE [Response("next-question", 200, "ok", nextTopic, currentMastery)
                     EXCEPT !.difficulty = adjustDifficulty(nextTopic, currentMastery, << >>),
                            !.sessionId = i]
       IN  IF i # 0
             THEN \E backendOk \in BOOLEAN :
                    resp' = Answer(selectNextTopic(knowledgeStateObject(sessions[i]),
                                                   EmptyMap),
                                   backendOk)
             ELSE \E currentTopic \in ReqTopics, backendOk \in BOOLEAN :
                    resp' = Answer(currentTopic, backendOk)
  /\ UNCHANGED <<sessions, now, args, ret, inflight>>

\* recentActivities of GET /users/:userId/stats: Array.prototype.sort orders
\* the loaded document's questionHistory in place, newest first (stable), and
\* the first five are reported
RECURSIVE sortNewestFirst(_)
sortNewestFirst(history) ==
  IF Len(history) = 0 THEN << >>
  ELSE LET newest == CHOOSE i \in 1..Len(history) :
                       /\ \A j \in 1..Len(history) :
                            history[j].timestamp <= history[i].timestamp
                       /\ \A j \in 1..(i - 1) :
                            history[j].timestamp < history[i].timestamp
           rest == [ j \in 1..(Len(history) - 1) |->
                       IF j < newest THEN history[j] ELSE history[j + 1] ]
       IN  <<history[newest]>> \o sortNewestFirst(rest)

\* GET /users/:userId/stats: the handler works on the loaded document and
\* never saves it
GetStats ==
  /\ \E userId \in Users :
       LET i == findOneOfUser(userId)
           loaded == [sessions[i] EXCEPT !.questionHistory = sortNewestFirst(@)]
           recentActivities == SubSeq(loaded.questionHistory, 1,
                                      Min(5, Len(loaded.questionHistory)))
       IN  IF i = 0
             THEN resp' = Response("stats", 404, "none", "none", 0)
             ELSE resp' = [Response("stats", 200, "none", "none", 0)
                             EXCEPT !.topic =
                               IF Len(recentActivities) > 0
                                 THEN recentActivities[1].topic ELSE "none"]
  /\ UNCHANGED <<sessions, now, args, ret, inflight>>

Next ==
  \/ Start
  \/ AssessmentStart
  \/ LegacyStart
  \/ End
  \/ SubmitQuestion
  \/ UpdateStats
  \/ SessionUpdate
  \/ AnswerEvaluate
  \/ UpdateSessionWithQuestion
  \/ CompleteAssessment
  \/ ServerEvaluate
  \/ LegacyEvaluate
  \/ NextQuestion
  \/ GetStats

Spec == Init /\ [][Next]_vars

(***************************************************************************)
(* Overlapping submissions.  POST /submit-question awaits three times:     *)
(* the session is loaded, the answer is scored, the changed document is    *)
(* saved.  Here a handler is two steps, the load and everything after it,  *)
(* so that a second request can load the session in between; nothing in    *)
(* the handler or the schema keeps it from doing so.  save() sends the     *)
(* changes made to the loaded document (pushes, and sets of the changed    *)
(* fields), not the document.                                              *)
(***************************************************************************)
MaxOverlapHistory == 3

Requests == {1, 2}

Idle == [pc |-> "idle"]

Answered(status) == [pc |-> "done", status |-> status]

\* the maps' keys that the handler has set to a new value
changedKeys(loadedMap, map) ==
  { t \in DOMAIN map : t \notin DOMAIN loadedMap \/ map[t] # loadedMap[t] }

mergeMap(storedMap, loadedMap, map) ==
  [ t \in (DOMAIN storedMap) \cup changedKeys(loadedMap, map) |->
      IF t \in changedKeys(loadedMap, map) THEN map[t] ELSE storedMap[t] ]

\* the update save() sends for a document loaded as `loaded` and changed to
\* `session`, applied to the stored document: $push of the new array
\* elements, $set of the changed fields of the elements that were loaded
\* (by position) and of the changed map entries
applyDelta(stored, loaded, session) ==
  LET n == Len(loaded.knowledgeStates)
      setFields(k) ==
        [topic |-> stored.knowledgeStates[k].topic,
         mastery |-> IF session.knowledgeStates[k].mastery # loaded.knowledgeStates[k].mastery
                       THEN session.knowledgeStates[k].mastery
                       ELSE stored.knowledgeStates[k].mastery,
         streak |-> IF session.knowledgeStates[k].streak # loaded.knowledgeStates[k].streak
                      THEN session.knowledgeStates[k].streak
                      ELSE stored.knowledgeStates[k].streak]
  IN  [stored EXCEPT
         !.questionHistory =
            @ \o SubSeq(session.questionHistory, Len(loaded.questionHistory) + 1,
                        Len(session.questionHistory)),
         !.knowledgeStates =
            [ k \in 1..Len(stored.knowledgeStates) |->
                IF k <= n THEN setFields(k) ELSE stored.knowledgeStates[k] ]
              \o SubSeq(session.knowledgeStates, n + 1, Len(session.knowledgeStates)),
         !.currentStreaks = mergeMap(@, loaded.currentStreaks, session.currentStreaks),
         !.learningVelocity = mergeMap(@, loaded.learningVelocity, session.learningVelocity)]

\* a $set on an element of knowledgeStates makes save() require the version
\* the document was loaded with; pushes and map entries do not
setsLoadedElement(loaded, topic) == findKnowledgeState(loaded, topic) # 0

\* the attempts stored or about to be stored
OverlapHistory ==
  TotalHistory + Cardinality({ r \in Requests : inflight[r].pc = "scoring" })

OverlapInit ==
  /\ sessions = << >>
  /\ now = 0
  /\ resp = NoResp
  /\ args = NoArgs
  /\ ret = Pending
  /\ inflight = [ r \in Requests |-> Idle ]

\* POST /start
OverlapStart == StartWithin(MaxSessions)

\* POST /submit-question up to the call of evaluateAnswer: the session is
\* loaded
SubmitQuestionLoad ==
  /\ OverlapHistory < MaxOverlapHistory
  /\ \E r \in Requests, sessionId \in SessionIds, userId \in Users, topic \in ReqTopics,
        difficulty \in ReqDifficulties \cup {Absent}, currentMastery \in ClientMasteries :
       LET i == findByIdOrLatest(sessionId, userId)
       IN  /\ inflight[r].pc # "scoring"
           /\ IF i = 0
                THEN /\ inflight' = [inflight EXCEPT ![r] = Answered(404)]
                     /\ resp' = Response("submit-question", 404, "none", "none", 0)
                ELSE /\ inflight' =
                          [inflight EXCEPT ![r] =
                             [pc |-> "scoring", id |-> i, loaded |-> sessions[i],
                              topic |-> topic,
                              difficultyOr |-> IF difficulty = Absent THEN "medium"
                                               ELSE difficulty,
                              currentMastery |-> currentMastery]]
                     /\ UNCHANGED resp
  /\ UNCHANGED <<sessions, now, args, ret>>

\* POST /submit-question from the answer of evaluateAnswer on: the loaded
\* document is changed and saved.  When the stored document has changed
\* since it was loaded, save() either applies its update to it or, if the
\* update requires the loaded version, fails with a VersionError.
SubmitQuestionSave ==
  /\ \E r \in Requests, backend \in BackendOutcomes :
       /\ inflight[r].pc = "scoring"
       /\ LET q == inflight[r]
              evaluation == ollamaEvaluateAnswer(backend.ok, backend.score)
              s2 == submitQuestionUpdate(q.loaded, q.topic, q.difficultyOr,
                                         q.currentMastery, evaluation.score)
              newMastery == calculateMasteryUpdate(q.currentMastery, evaluation.score,
                                                   q.difficultyOr)
              saved == [q EXCEPT !.pc = "done"] @@ [status |-> 200, score |-> evaluation.score]
          IN  IF evaluation.threw
                THEN /\ inflight' = [inflight EXCEPT ![r] = Answered(500)]
                     /\ resp' = Response("submit-question", 500, "fail", "none", 0)
                     /\ UNCHANGED sessions
              ELSE IF ~validates(q.loaded, s2)
                THEN /\ inflight' = [inflight EXCEPT ![r] = Answered(500)]
                     /\ resp' = Response("submit-question", 500, "ok", "none", 0)
                     /\ UNCHANGED sessions
              ELSE \/ /\ sessions' = Saved(q.id, applyDelta(sessions[q.id], q.loaded, s2))
                      /\ inflight' = [inflight EXCEPT ![r] = saved]
                      /\ resp' = Response("submit-question", 200, "ok", "none", newMastery)
                   \/ /\ sessions[q.id] # q.loaded
                      /\ setsLoadedElement(q.loaded, q.topic)
                      /\ inflight' = [inflight EXCEPT ![r] = Answered(500)]
                      /\ resp' = Response("submit-question", 500, "ok", "none", 0)
                      /\ UNCHANGED sessions
  /\ UNCHANGED <<now, args, ret>>

OverlapNext ==
  \/ OverlapStart
  \/ SubmitQuestionLoad
  \/ SubmitQuestionSave

SpecOverlap == OverlapInit /\ [][OverlapNext]_vars

(***************************************************************************)
(* The lifecycle of sessions alone: the start and end operations, with     *)
(* room for several sessions of one user.                                  *)
(***************************************************************************)
MaxStarted == 5

LifecycleStart == StartWithin(MaxStarted)

LifecycleAssessmentStart == AssessmentStartWithin(MaxStarted)

LifecycleLegacyStart == LegacyStartWithin(MaxStarted)

LifecycleEnd == EndAmong(0..MaxStarted)

LifecycleNext ==
  \/ LifecycleStart
  \/ LifecycleAssessmentStart
  \/ LifecycleLegacyStart
  \/ LifecycleEnd

SpecLifecycle == Init /\ [][LifecycleNext]_vars

(***************************************************************************)
(* Calls of the pure functions on bounded inputs                           *)
(***************************************************************************)
SelTopics == {"Arrays", "Linked Lists", "Trees", "Graphs"}
SelMasteries == {0, 5000, 9000}

PreTopics == {"Trees", "Binary Search", "Linked Lists"}
PreMasteries == {0, 1000, 4799, 4800, 5399, 5400, 9000}
PreCallTopics == {"Binary Search Trees", "Graphs", "Trees", "Arrays", "Programming"}

DiffScores == {0, 25, 60, 100}

\* objects with at most n distinct keys from T and values from M
Objects(T, M, n) ==
  UNION { { o \in [1..k -> [topic : T, mastery : M]] :
              \A i, j \in 1..k : i # j => o[i].topic # o[j].topic } : k \in 0..n }

ObjKeySet(obj) == { obj[i].topic : i \in 1..Len(obj) }

\* sessionHistory objects: a key is absent, or maps to an empty array, or to
\* an array holding one attempt
HistoryKinds == {"absent", "empty", "some"}

HistoryOf(h) ==
  [ t \in { k \in DOMAIN h : h[k] # "absent" } |->
      IF h[t] = "empty" THEN << >> ELSE << [topic |-> t, score |-> 80] >> ]

SelObjects == Objects(SelTopics, SelMasteries, MaxKeys)

PrereqArgs ==
  { [fn |-> "checkPrerequisites", topic |-> t, knowledgeState |-> o] :
      t \in PreCallTopics, o \in Objects(PreTopics, PreMasteries, MaxKeys) }

ScoreSeqs(n) == UNION { [1..k -> DiffScores] : k \in 0..n }

DifficultyArgs ==
  { [fn |-> "adjustDifficulty", topic |-> "Arrays", mastery |-> 3000,
     performanceHistory |-> h] : h \in ScoreSeqs(MaxScores) }

FnInit ==
  /\ sessions = << >>
  /\ now = 0
  /\ resp = NoResp
  /\ args = NoArgs
  /\ ret = Pending
  /\ inflight = NoRequests

CallSelectNextTopic ==
  /\ args = NoArgs
  /\ \E o \in SelObjects : \E h \in [ObjKeySet(o) -> HistoryKinds] :
       LET a == [fn |-> "selectNextTopic", knowledgeState |-> o,
                 sessionHistory |-> HistoryOf(h)]
       IN  /\ args' = a
           /\ ret' = [value |-> selectNextTopic(a.knowledgeState, a.sessionHistory),
                      topicScores |-> topicScoresOf(a.knowledgeState, a.sessionHistory)]
  /\ UNCHANGED <<sessions, now, resp, inflight>>

CallCheckPrerequisites ==
  /\ args = NoArgs
  /\ \E a \in PrereqArgs :
       /\ args' = a
       /\ ret' = checkPrerequisites(a.topic, a.knowledgeState)
  /\ UNCHANGED <<sessions, now, resp, inflight>>

CallAdjustDifficulty ==
  /\ args = NoArgs
  /\ \E a \in DifficultyArgs :
       /\ args' = a
       /\ ret' = [value |-> adjustDifficulty(a.topic, a.mastery, a.performanceHistory)]
  /\ UNCHANGED <<sessions, now, resp, inflight>>

\* evaluateAnswer of either service, with the backend answering or failing
CallEvaluateAnswer ==
  /\ args = NoArgs
  /\ \E service \in {"OllamaService", "services/ollama"}, backend \in BackendOutcomes,
        randomScore \in FallbackScores :
       /\ args' = [fn |-> "evaluateAnswer", service |-> service,
                   backendOk |-> backend.ok, score |-> backend.score,
                   randomScore |-> randomScore]
       /\ ret' = IF service = "OllamaService"
                   THEN ollamaEvaluateAnswer(backend.ok, backend.score)
                   ELSE pythonEvaluateAnswer(backend.ok, backend.score, randomScore)
  /\ UNCHANGED <<sessions, now, resp, inflight>>

MasteryArgs == {0, 2000, 2999, 3000, 5999, 6000, 9500, Scale}
ScoreArgs == {0, 29, 30, 49, 50, 69, 70, 89, 90, 95, 100}
DifficultyNames == {"easy", "medium", "hard", "Hard", Absent}

CallCalculateMasteryUpdate ==
  /\ args = NoArgs
  /\ \E currentMastery \in MasteryArgs, score \in ScoreArgs,
        difficulty \in DifficultyNames :
       /\ args' = [fn |-> "calculateMasteryUpdate", currentMastery |-> currentMastery,
                   score |-> score, difficulty |-> difficulty]
       /\ ret' = [value |-> calculateMasteryUpdate(currentMastery, score, difficulty)]
  /\ UNCHANGED <<sessions, now, resp, inflight>>

FeedbackWords ==
  {Str_excellent, Str_perfect, Str_good, Str_correct, Str_incorrect, Str_satisfactory, Str_okay, Str_needs_improvement, Str_Wrong, Str_fine}
CaptureValues == {NoMatch, 85, 150}

\* the texts of up to MaxWords words, separated by blanks
RECURSIVE Texts(_)
Texts(n) ==
  IF n = 0 THEN {<< >>}
  ELSE Texts(n - 1) \cup FeedbackWords
         \cup { t \o <<" ">> \o w : t \in Texts(n - 1) \ {<< >>}, w \in FeedbackWords }

CallParseScoreFromFeedback ==
  /\ args = NoArgs
  /\ \E text \in Texts(MaxWords), captures \in [1..4 -> CaptureValues] :
       /\ args' = [fn |-> "parseScoreFromFeedback",
                   feedback |-> [text |-> text, captures |-> captures]]
       /\ ret' = [value |-> parseScoreFromFeedback([text |-> text, captures |-> captures])]
  /\ UNCHANGED <<sessions, now, resp, inflight>>

\* updateKnowledgeStateFromQuestion on a session that holds a knowledge
\* state for the topic; the stored mastery afterwards is returned
CallUpdateKnowledgeStateFromQuestion ==
  /\ args = NoArgs
  /\ \E mastery \in {3000, 5000}, isCorrect \in BOOLEAN,
        difficulty \in {"Easy", "easy", "Medium", "hard", "Hard", Absent} :
       LET session == [NewSession("u1") EXCEPT
                         !.knowledgeStates =
                            <<[topic |-> "Arrays", mastery |-> mastery, streak |-> 0]>>]
           updated == updateKnowledgeStateFromQuestion(session, "Arrays", isCorrect,
                                                       difficulty)
       IN  /\ args' = [fn |-> "updateKnowledgeStateFromQuestion", session |-> session,
                       topic |-> "Arrays", isCorrect |-> isCorrect,
                       difficulty |-> difficulty]
           /\ ret' = [value |-> updated.knowledgeStates[1].mastery]
  /\ UNCHANGED <<sessions, now, resp, inflight>>

FnNext ==
  \/ CallUpdateKnowledgeStateFromQuestion
  \/ CallParseScoreFromFeedback
  \/ CallCalculateMasteryUpdate
  \/ CallSelectNextTopic
  \/ CallCheckPrerequisites
  \/ CallAdjustDifficulty
  \/ CallEvaluateAnswer

SpecFn == FnInit /\ [][FnNext]_vars

(***************************************************************************)
(* Properties of the session handlers (checked under Spec)                 *)
(***************************************************************************)
Called(fn) == args.fn = fn

\* C1: after any sequence of attempt-recording operations, with any score
\* and any difficulty, every mastery stored in a session's knowledge state
\* lies in [0, 1].
T_C1_MasteryInUnitInterval ==
  \A i \in 1..Len(sessions) :
     \A k \in 1..Len(sessions[i].knowledgeStates) :
        /\ sessions[i].knowledgeStates[k].mastery >= 0
        /\ sessions[i].knowledgeStates[k].mastery <= Scale

\* an update that would have left [0, 1] was stored at the bound: 0.95 raised
\* by a score of 0.95 is stored as 1, and 0 lowered by a score of 0.2 as 0
W_C1_StoredAtBothBounds ==
  /\ Len(sessions) >= 1
  /\ Len(sessions[1].questionHistory) = 2
  /\ \E k \in 1..Len(sessions[1].knowledgeStates) :
        /\ sessions[1].knowledgeStates[k].mastery = Scale
        /\ \E q \in 1..2 : /\ sessions[1].questionHistory[q].score = 95
                             /\ sessions[1].questionHistory[q].topic
                                  = sessions[1].knowledgeStates[k].topic
  /\ \E k \in 1..Len(sessions[1].knowledgeStates) :
        /\ sessions[1].knowledgeStates[k].mastery = 0
        /\ \E q \in 1..2 : /\ sessions[1].questionHistory[q].score = 20
                             /\ sessions[1].questionHistory[q].topic
                                  = sessions[1].knowledgeStates[k].topic

\* C2: once a session is marked completed, every later attempt-recording
\* call on it fails with an invalid-state error and leaves its history,
\* knowledge state, streaks and velocity unchanged: no step changes a
\* completed session.
X_C2_CompletedSessionUnchanged ==
  [][ \A i \in 1..Len(sessions) :
        sessions[i].isCompleted
          => /\ i <= Len(sessions')
             /\ sessions'[i] = sessions[i] ]_vars

\* C3: when the scoring call fails during an answer submission, the session
\* is left exactly as it was: no step that answers a failed backend call
\* changes the stored sessions.
X_C3_FailedScoringLeavesSessions ==
  [][ (resp'.backend = "fail" /\ resp'.op # "next-question")
        => sessions' = sessions ]_vars

(***************************************************************************)
(* Properties of the pure functions (checked under SpecFn)                 *)
(***************************************************************************)
\* C4: whenever the backend is unreachable or fails, evaluateAnswer reports
\* a failure to its caller and returns no evaluation with a score.
X_C4_FailureReported ==
  (Called("evaluateAnswer") /\ ~args.backendOk) => ret.threw

\* C5: selectNextTopic returns a member of the topic catalog for every
\* knowledge state passed to it; /next-question passes the knowledge state
\* of a stored session (checked under Spec).
X_C5_SelectedTopicInCatalog ==
  \A i \in 1..Len(sessions) :
     Len(sessions[i].knowledgeStates) > 0
       => selectNextTopic(knowledgeStateObject(sessions[i]), EmptyMap) \in Catalog


AttemptsOn(t, sessionHistory) ==
  IF t \in DOMAIN sessionHistory THEN Len(sessionHistory[t]) ELSE 0

PrereqsOf(t) ==
  IF t \in DOMAIN weightedPrerequisites THEN weightedPrerequisites[t] ELSE << >>

MasteryOrZero(knowledgeState, t) ==
  IF ObjHas(knowledgeState, t) THEN ObjGet(knowledgeState, t) ELSE 0

PrereqsSatisfied(t, knowledgeState) ==
  \A k \in 1..Len(PrereqsOf(t)) :
     MasteryOrZero(knowledgeState, PrereqsOf(t)[k][1])
       >= 3000 + PrereqsOf(t)[k][2] * 300

ScoreOfEntry(i) == ret.topicScores[i].score

MaxEntries ==
  { i \in 1..Len(ret.topicScores) :
      \A j \in 1..Len(ret.topicScores) : ScoreOfEntry(j) <= ScoreOfEntry(i) }

\* C6: on a non-empty knowledge state in which every topic has zero attempts
\* and no prerequisites, selectNextTopic returns one of the topics and does
\* not throw.  (That two calls on identical inputs agree holds by
\* construction: the function reads only its arguments and the constant
\* prerequisite map.)
T_C6_NoPrereqNoAttemptsReturnsTopic ==
  ( /\ Called("selectNextTopic")
    /\ Len(args.knowledgeState) > 0
    /\ \A i \in 1..Len(args.knowledgeState) :
         /\ AttemptsOn(args.knowledgeState[i].topic, args.sessionHistory) = 0
         /\ PrereqsOf(args.knowledgeState[i].topic) = << >> )
  => ( /\ ret.value # TypeError
       /\ ret.value \in ObjKeySet(args.knowledgeState) )

W_C6_NoPrereqNoAttempts ==
  /\ Called("selectNextTopic")
  /\ Len(args.knowledgeState) = 2
  /\ \A i \in 1..Len(args.knowledgeState) :
       /\ AttemptsOn(args.knowledgeState[i].topic, args.sessionHistory) = 0
       /\ PrereqsOf(args.knowledgeState[i].topic) = << >>
  /\ ret.value \in ObjKeySet(args.knowledgeState)

\* C7 (as claimed): the returned topic has the maximum score and, among the
\* topics sharing the maximum, is the earliest in iteration order.
X_C7_MaxEarliestTie ==
  ( Called("selectNextTopic") /\ Len(args.knowledgeState) > 0 )
  => \E i \in MaxEntries :
        /\ ret.value = ret.topicScores[i].topic
        /\ \A j \in MaxEntries : i <= j

\* C7 (amended): on a non-empty knowledge state the returned topic has the
\* maximum score and, among the topics sharing the maximum, is the latest
\* in the iteration order of the knowledge state's keys.
T_C7_MaxLatestTie ==
  ( Called("selectNextTopic") /\ Len(args.knowledgeState) > 0 )
  => \E i \in MaxEntries :
        /\ ret.value = ret.topicScores[i].topic
        /\ \A j \in MaxEntries : j <= i

W_C7_Tie ==
  /\ Called("selectNextTopic")
  /\ Len(args.knowledgeState) = 3
  /\ Cardinality(MaxEntries) = 2
  /\ ret.value = ret.topicScores[3].topic
  /\ 1 \in MaxEntries

\* C8: the selection score of every topic is (0.4 if it has zero attempts,
\* else 0) + (0.3 if mastery < 0.3; 0.2 if mastery < 0.6; else 0.1), then
\* + 0.3 if its prerequisites are satisfied, otherwise the whole sum times
\* 0.1.  (Scores are in thousandths.)
T_C8_ScoreFormula ==
  Called("selectNextTopic")
  => \A i \in 1..Len(ret.topicScores) :
       LET t == ret.topicScores[i].topic
           m == ObjGet(args.knowledgeState, t)
           e == IF AttemptsOn(t, args.sessionHistory) = 0 THEN 40 ELSE 0
           g == IF m < 3000 THEN 30 ELSE IF m < 6000 THEN 20 ELSE 10
       IN  /\ args.knowledgeState[i].topic = t
           /\ 10 * ScoreOfEntry(i) =
                IF PrereqsSatisfied(t, args.knowledgeState)
                  THEN 100 * (e + g + 30)
                  ELSE 10 * (e + g)

W_C8_PenalisedAndBonus ==
  /\ Called("selectNextTopic")
  /\ \E i, j \in 1..Len(ret.topicScores) :
       /\ ~PrereqsSatisfied(ret.topicScores[i].topic, args.knowledgeState)
       /\ AttemptsOn(ret.topicScores[i].topic, args.sessionHistory) = 0
       /\ ScoreOfEntry(i) = 70
       /\ PrereqsSatisfied(ret.topicScores[j].topic, args.knowledgeState)
       /\ AttemptsOn(ret.topicScores[j].topic, args.sessionHistory) > 0
       /\ ScoreOfEntry(j) = 500

\* the prerequisites of t whose mastery (0 when absent) is below
\* 0.3 + weight * 0.3, in the order of the prerequisite map
ExpectedMissing(t, knowledgeState) ==
  LET below(p) == MasteryOrZero(knowledgeState, p[1]) < 3000 + p[2] * 300
      kept == SelectSeq(PrereqsOf(t), below)
  IN  [ k \in 1..Len(kept) |-> kept[k][1] ]

\* C9: checkPrerequisites reports as missing exactly the prerequisites whose
\* mastery (0 when absent) is below 0.3 + weight * 0.3, in map order;
\* canProceed iff none is missing; a topic without prerequisites is allowed
\* with an empty list; Binary Search Trees with Trees = 0.1 and Binary
\* Search = 0.1 misses both, and with both at 0.9 is allowed.
T_C9_MissingPrereqs ==
  Called("checkPrerequisites")
  => /\ ret.missingPrereqs = ExpectedMissing(args.topic, args.knowledgeState)
     /\ ret.canProceed = (ret.missingPrereqs = << >>)
     /\ (PrereqsOf(args.topic) = << >>
           => ret.canProceed /\ ret.missingPrereqs = << >>)
     /\ ( ( /\ args.topic = "Binary Search Trees"
             /\ MasteryOrZero(args.knowledgeState, "Trees") = 1000
             /\ MasteryOrZero(args.knowledgeState, "Binary Search") = 1000 )
           => ( /\ ~ret.canProceed
                /\ ret.missingPrereqs = <<"Trees", "Binary Search">> ) )
     /\ ( ( /\ args.topic = "Binary Search Trees"
             /\ MasteryOrZero(args.knowledgeState, "Trees") = 9000
             /\ MasteryOrZero(args.knowledgeState, "Binary Search") = 9000 )
           => ( ret.canProceed /\ ret.missingPrereqs = << >> ) )

W_C9_OneMissingAtBoundary ==
  /\ Called("checkPrerequisites")
  /\ args.topic = "Binary Search Trees"
  /\ MasteryOrZero(args.knowledgeState, "Trees") = 5400
  /\ MasteryOrZero(args.knowledgeState, "Binary Search") = 4799
  /\ ret.missingPrereqs = <<"Binary Search">>
  /\ ~ret.canProceed

RECURSIVE SumRange(_, _, _)
SumRange(h, lo, hi) == IF lo > hi THEN 0 ELSE h[lo] + SumRange(h, lo + 1, hi)

\* C10: adjustDifficulty returns easy when the mean of the last 5 scores is
\* below 0.3, medium when it is below 0.6 and hard otherwise; an empty
\* history counts as mean 0.5 (medium); older scores have no effect.
T_C10_DifficultyByRecentMean ==
  Called("adjustDifficulty")
  => LET h == args.performanceHistory
         lo == IF Len(h) > 5 THEN Len(h) - 4 ELSE 1
         n == Len(h) - lo + 1
         sum == SumRange(h, lo, Len(h))
     IN  IF Len(h) = 0 THEN ret.value = "medium"
         ELSE /\ (sum < 30 * n => ret.value = "easy")
              /\ (sum >= 30 * n /\ sum < 60 * n => ret.value = "medium")
              /\ (sum >= 60 * n => ret.value = "hard")

W_C10_OldScoreIgnored ==
  /\ Called("adjustDifficulty")
  /\ args.performanceHistory = <<0, 60, 60, 60, 60, 60>>
  /\ ret.value = "hard"

\* C11: calculateMasteryUpdate returns clamp(previousMastery + base * rate *
\* mult, 0, 1) with rate 0.8 / 0.6 / 0.4 for previousMastery < 0.3 / < 0.6 /
\* otherwise, base +0.15 / +0.10 / +0.05 / 0 / -0.08 for score >= 0.9 /
\* >= 0.7 / >= 0.5 / >= 0.3 / otherwise and mult 0.7 / 1.0 / 1.4 for easy /
\* medium / hard; (0.2, 0.95, hard) gives 0.368.
T_C11_MasteryUpdateFormula ==
  (Called("calculateMasteryUpdate") /\ args.difficulty \in {"easy", "medium", "hard"})
  => LET m == args.currentMastery
         rate == CASE m < 3000 -> 8 [] m >= 3000 /\ m < 6000 -> 6 [] m >= 6000 -> 4
         base == CASE args.score >= 90 -> 15
                   [] args.score >= 70 /\ args.score < 90 -> 10
                   [] args.score >= 50 /\ args.score < 70 -> 5
                   [] args.score >= 30 /\ args.score < 50 -> 0
                   [] args.score < 30 -> -8
         mult == CASE args.difficulty = "easy" -> 7
                   [] args.difficulty = "medium" -> 10
                   [] args.difficulty = "hard" -> 14
         sum == m + base * rate * mult
     IN  /\ ret.value = (IF sum < 0 THEN 0 ELSE IF sum > Scale THEN Scale ELSE sum)
         /\ (m = 2000 /\ args.score = 95 /\ args.difficulty = "hard"
               => ret.value = 3680)

W_C11_WorkedExample ==
  /\ Called("calculateMasteryUpdate")
  /\ args.currentMastery = 2000
  /\ args.score = 95
  /\ args.difficulty = "hard"
  /\ ret.value = 3680

\* the texts whose only keyword is w: w alone, repeated, or next to a word
\* that is no keyword
OnlyKeyword(w) ==
  {w, w \o <<" ">> \o w, w \o <<" ">> \o Str_fine, Str_fine \o <<" ">> \o w}

NoCaptureInRange ==
  \A i \in 1..4 : args.feedback.captures[i] = NoMatch \/ args.feedback.captures[i] > 100

\* C13: when no numeric pattern yields a value in [0, 1], parseScoreFromFeedback
\* gives 0.95 for "excellent", 0.8 for "good", 0.6 for "satisfactory", 0.4 for
\* "needs improvement", 0.2 for "incorrect" or "wrong", and exactly 0.5 for a
\* text with no keyword; a feedback whose only keyword is "incorrect" yields
\* 0.2.
X_C13_KeywordHeuristic ==
  (Called("parseScoreFromFeedback") /\ NoCaptureInRange)
  => LET text == args.feedback.text
     IN  /\ (text \in OnlyKeyword(Str_excellent) => ret.value = 95)
         /\ (text \in OnlyKeyword(Str_good) => ret.value = 80)
         /\ (text \in OnlyKeyword(Str_satisfactory) => ret.value = 60)
         /\ (text \in OnlyKeyword(Str_needs_improvement) => ret.value = 40)
         /\ (text \in OnlyKeyword(Str_incorrect) => ret.value = 20)
         /\ (text \in OnlyKeyword(Str_Wrong) => ret.value = 20)
         /\ (text \in {<< >>, Str_fine} => ret.value = 50)


\* the streak stored for a topic (0 when the topic has no knowledge state)
StreakOf(session, topic) ==
  LET k == findKnowledgeState(session, topic)
  IN  IF k # 0 THEN session.knowledgeStates[k].streak ELSE 0

RecordingOps ==
  {"submit-question", "session/update", "answer/evaluate", "update-stats",
   "updateSessionWithQuestion"}

\* the step is a recording operation that appended one attempt to session i
Recorded(i) ==
  /\ resp'.op \in RecordingOps
  /\ i <= Len(sessions')
  /\ Len(sessions'[i].questionHistory) = Len(sessions[i].questionHistory) + 1

LastAttempt(session) == session.questionHistory[Len(session.questionHistory)]

\* C12: in every operation that records an evaluated attempt, the streak of
\* the attempt's topic is incremented exactly when the attempt's score is at
\* least 0.7.
X_C12_StreakIncrementedIffPassed ==
  [][ \A i \in 1..Len(sessions) :
        Recorded(i) =>
          LET topic == LastAttempt(sessions'[i]).topic
          IN  (StreakOf(sessions'[i], topic) = StreakOf(sessions[i], topic) + 1)
                <=> (LastAttempt(sessions'[i]).score >= 70) ]_vars


IsPrefix(a, b) == Len(a) <= Len(b) /\ \A j \in 1..Len(a) : b[j] = a[j]

\* the operations that record one evaluated attempt
AttemptOps == RecordingOps \cup {"server/evaluate", "legacy/evaluate"}

\* C14: the attempt history of a session is append-only: no operation
\* (statistics reporting and assessment completion included) removes,
\* rewrites or reorders a stored record, and an operation that records an
\* attempt extends the stored sequence by exactly one record at the end.
T_C14_HistoryAppendOnly ==
  [][ \A i \in 1..Len(sessions) :
        /\ i <= Len(sessions')
        /\ IsPrefix(sessions[i].questionHistory, sessions'[i].questionHistory)
        /\ (resp'.op \in AttemptOps
              /\ sessions'[i].questionHistory # sessions[i].questionHistory)
           => Len(sessions'[i].questionHistory) = Len(sessions[i].questionHistory) + 1
    ]_vars

\* two different attempts are stored, and statistics have just been reported
W_C14_StatsOverTwoAttempts ==
  \E i \in 1..Len(sessions) :
    /\ Len(sessions[i].questionHistory) = 2
    /\ sessions[i].questionHistory[1] # sessions[i].questionHistory[2]
    /\ resp.op = "stats"
    /\ resp.status = 200


\* session.learningVelocity.get(topic) || 0
VelocityOf(session, topic) ==
  IF topic \in DOMAIN session.learningVelocity
    THEN session.learningVelocity[topic] ELSE ZeroVelocity

\* C15: after every recorded attempt on a topic, the learning velocity of
\* the topic is (attempts on the topic) / (hours between the topic's first
\* and last attempt), and 0 when the topic has fewer than 2 attempts or no
\* time has elapsed.
X_C15_VelocityIsAttemptsPerHour ==
  \A i \in 1..Len(sessions) :
    \A k \in 1..Len(sessions[i].questionHistory) :
      LET topic == sessions[i].questionHistory[k].topic
          topicQuestions == topicQuestionsOf(sessions[i].questionHistory, topic)
          hours == topicQuestions[Len(topicQuestions)].timestamp
                     - topicQuestions[1].timestamp
          velocity == VelocityOf(sessions[i], topic)
      IN  IF Len(topicQuestions) < 2 \/ hours = 0
            THEN velocity.num = 0
            ELSE velocity.num * hours = Len(topicQuestions) * velocity.den


\* C16: every topic that appears in a session's knowledge state or attempt
\* history is a member of the topic catalog (an attempt naming another topic
\* is rejected and stores nothing).
X_C16_StoredTopicsInCatalog ==
  \A i \in 1..Len(sessions) :
    /\ \A k \in 1..Len(sessions[i].knowledgeStates) :
         sessions[i].knowledgeStates[k].topic \in Catalog
    /\ \A k \in 1..Len(sessions[i].questionHistory) :
         sessions[i].questionHistory[k].topic \in Catalog


\* the topics a session holds a mastery value for
TopicsOf(session) ==
  { session.knowledgeStates[k].topic : k \in 1..Len(session.knowledgeStates) }

\* C17: a session created by the start operation holds a mastery value,
\* zero (the catalog default), for every topic of the catalog before any
\* attempt is recorded.
X_C17_StartedSessionCoversCatalog ==
  \A i \in 1..Len(sessions) :
    Len(sessions[i].questionHistory) = 0
      => /\ Catalog \subseteq TopicsOf(sessions[i])
         /\ \A k \in 1..Len(sessions[i].knowledgeStates) :
              sessions[i].knowledgeStates[k].mastery = 0

InProgress(userId) ==
  { i \in 1..Len(sessions) : sessions[i].user = userId /\ ~sessions[i].isCompleted }

\* C18: at every moment each user has at most one session that is not
\* marked completed (checked under SpecLifecycle).
X_C18_AtMostOneInProgress ==
  \A userId \in Users : Cardinality(InProgress(userId)) <= 1


\* the masteries an attempt may start from: the one stored for the topic,
\* or zero / the default 0.3 when the topic has no knowledge state
PriorMasteries(session, topic) ==
  LET k == findKnowledgeState(session, topic)
  IN  IF k # 0 THEN {session.knowledgeStates[k].mastery} ELSE {0, 3000}

\* C20: when an attempt is submitted (POST /submit-question), the mastery
\* stored for its topic is the mastery-update function applied to the mastery
\* the session stored for the topic immediately before, the attempt's score
\* and its difficulty, whatever mastery the client supplies.
X_C20_SubmitQuestionFromStoredPrior ==
  [][ resp'.op = "submit-question" =>
        \A i \in 1..Len(sessions) :
          Recorded(i) =>
            LET attempt == LastAttempt(sessions'[i])
                k == findKnowledgeState(sessions'[i], attempt.topic)
            IN  /\ k # 0
                /\ \E prior \in PriorMasteries(sessions[i], attempt.topic) :
                     sessions'[i].knowledgeStates[k].mastery =
                       calculateMasteryUpdate(prior, attempt.score, attempt.difficulty)
    ]_vars


\* both requests have been answered 200 after loading the same stored
\* document: their handlers overlapped
Overlapped ==
  /\ \A r \in Requests : inflight[r].pc = "done" /\ inflight[r].status = 200
  /\ inflight[1].id = inflight[2].id
  /\ inflight[1].loaded = inflight[2].loaded

\* the request's update applied to a session, as a handler running alone
\* applies it
applyRequest(session, q) ==
  submitQuestionUpdate(session, q.topic, q.difficultyOr, q.currentMastery, q.score)

\* C19: when two submissions for the same session overlap, the final
\* session contains both attempt records, and its knowledge states (mastery
\* and streak) are those of applying the two updates one after the other in
\* some order.
X_C19_OverlapIsSerialized ==
  Overlapped =>
    LET base == inflight[1].loaded
        final == sessions[inflight[1].id]
        oneThenTwo == applyRequest(applyRequest(base, inflight[1]), inflight[2])
        twoThenOne == applyRequest(applyRequest(base, inflight[2]), inflight[1])
    IN  /\ \E serial \in {oneThenTwo, twoThenOne} :
             final.questionHistory = serial.questionHistory
        /\ \E serial \in {oneThenTwo, twoThenOne} :
             final.knowledgeStates = serial.knowledgeStates


\* the scores recorded in a session for a topic, oldest first
ScoresOn(session, topic) ==
  LET topicQuestions == topicQuestionsOf(session.questionHistory, topic)
  IN  [ k \in 1..Len(topicQuestions) |-> topicQuestions[k].score ]

\* C21: the difficulty of the question that POST /next-question produces
\* for a session is the tier adjustDifficulty yields for the scores recorded
\* in that session for the topic (their last 5).
X_C21_DifficultyFromRecordedScores ==
  (resp.op = "next-question" /\ resp.status = 200 /\ resp.sessionId # 0)
    => resp.difficulty =
         adjustDifficulty(resp.topic, resp.newMastery,
                          ScoresOn(sessions[resp.sessionId], resp.topic))


MasteryUpdatingOps ==
  {"submit-question", "session/update", "update-stats", "updateSessionWithQuestion"}

\* C22: every operation that updates a stored mastery produces, from the
\* previous mastery it starts from (the stored one, the default for an
\* absent one, or the one the request carries), the attempt's score and its
\* difficulty, the new mastery calculateMasteryUpdate produces.
X_C22_SameAsCalculateMasteryUpdate ==
  [][ \A i \in 1..Len(sessions) :
        (Recorded(i) /\ resp'.op \in MasteryUpdatingOps) =>
          LET attempt == LastAttempt(sessions'[i])
              k == findKnowledgeState(sessions'[i], attempt.topic)
          IN  k # 0 =>
                \E previous \in PriorMasteries(sessions[i], attempt.topic)
                                  \cup ClientMasteries :
                  sessions'[i].knowledgeStates[k].mastery =
                    calculateMasteryUpdate(previous, attempt.score, attempt.difficulty)
    ]_vars


Abs(x) == IF x < 0 THEN -x ELSE x

\* easy 1, medium 2, hard 3; a missing or unknown difficulty counts as medium
TierOf(difficulty) ==
  CASE difficulty \in {"Easy", "easy"} -> 1
    [] difficulty \in {"Hard", "hard"} -> 3
    [] OTHER -> 2

\* C23: for the same previous mastery and the same outcome, the magnitude of
\* the mastery change of updateKnowledgeStateFromQuestion on a harder
\* attempt is at least that on an easier one, for successes and failures
\* alike (masteries away from the bounds, so nothing is clamped).
X_C23_HarderMovesFurther ==
  Called("updateKnowledgeStateFromQuestion") =>
    LET previous == args.session.knowledgeStates[1].mastery
        ChangeOn(difficulty) ==
          updateKnowledgeStateFromQuestion(args.session, args.topic, args.isCorrect,
                                           difficulty).knowledgeStates[1].mastery
            - previous
    IN  \A difficulty \in {"easy", "medium", "hard"} :
          /\ TierOf(difficulty) <= TierOf(args.difficulty)
               => Abs(ChangeOn(difficulty)) <= Abs(ret.value - previous)
          /\ TierOf(difficulty) >= TierOf(args.difficulty)
               => Abs(ChangeOn(difficulty)) >= Abs(ret.value - previous)


\* C24: every stored streak, in a knowledge-state entry and in the streak
\* map, is a non-negative integer (a failed attempt resets it to 0).
X_C24_StreaksNonNegative ==
  \A i \in 1..Len(sessions) :
    /\ \A k \in 1..Len(sessions[i].knowledgeStates) :
         sessions[i].knowledgeStates[k].streak >= 0
    /\ \A topic \in DOMAIN sessions[i].currentStreaks :
         sessions[i].currentStreaks[topic] >= 0


\* the last five scores of a history of at least five
LastFive(h) == { h[k] : k \in (Len(h) - 4)..Len(h) }

\* C25: after 5 consecutive attempts each scored below 0.3 adjustDifficulty
\* selects easy, whatever the earlier scores were; after 5 consecutive
\* attempts each scored at least 0.6 it selects hard.
T_C25_FiveInARowDecide ==
  (Called("adjustDifficulty") /\ Len(args.performanceHistory) >= 5)
    => /\ (\A score \in LastFive(args.performanceHistory) : score < 30)
            => ret.value = "easy"
       /\ (\A score \in LastFive(args.performanceHistory) : score >= 60)
            => ret.value = "hard"

\* five low scores after a perfect one
W_C25_SlipAfterSuccess ==
  /\ Called("adjustDifficulty")
  /\ args.performanceHistory = <<100, 25, 25, 25, 25, 25>>
  /\ ret.value = "easy"


KeysOf(knowledgeState) == { knowledgeState[i].topic : i \in 1..Len(knowledgeState) }

\* C26: if the knowledge state passed to selectNextTopic contains a topic
\* whose prerequisites are satisfied, the topic returned has its
\* prerequisites satisfied, whatever the masteries and attempt counts are.
T_C26_UnlockedBeforeLocked ==
  ( /\ Called("selectNextTopic")
    /\ \E t \in KeysOf(args.knowledgeState) : PrereqsSatisfied(t, args.knowledgeState) )
  => /\ ret.value \in KeysOf(args.knowledgeState)
     /\ PrereqsSatisfied(ret.value, args.knowledgeState)

\* the returned topic is attempted and mastered, while a never attempted
\* topic of mastery 0 with unmet prerequisites was there to choose
W_C26_LockedNoveltyPassedOver ==
  /\ Called("selectNextTopic")
  /\ ret.value \in KeysOf(args.knowledgeState)
  /\ PrereqsSatisfied(ret.value, args.knowledgeState)
  /\ AttemptsOn(ret.value, args.sessionHistory) > 0
  /\ ObjGet(args.knowledgeState, ret.value) = 9000
  /\ \E t \in KeysOf(args.knowledgeState) :
       /\ ~PrereqsSatisfied(t, args.knowledgeState)
       /\ AttemptsOn(t, args.sessionHistory) = 0
       /\ ObjGet(args.knowledgeState, t) = 0

\* C27: selectNextTopic never returns a topic that has attempts in the
\* history while the knowledge state holds a topic with no attempts and
\* satisfied prerequisites.
T_C27_UnattemptedBeforeRepeated ==
  ( /\ Called("selectNextTopic")
    /\ \E t \in KeysOf(args.knowledgeState) :
         /\ AttemptsOn(t, args.sessionHistory) = 0
         /\ PrereqsSatisfied(t, args.knowledgeState) )
  => /\ ret.value \in KeysOf(args.knowledgeState)
     /\ AttemptsOn(ret.value, args.sessionHistory) = 0

\* the returned topic is never attempted and already mastered, while an
\* attempted topic of mastery 0 with satisfied prerequisites was there
W_C27_MasteredNoveltyChosen ==
  /\ Called("selectNextTopic")
  /\ ret.value \in KeysOf(args.knowledgeState)
  /\ AttemptsOn(ret.value, args.sessionHistory) = 0
  /\ ObjGet(args.knowledgeState, ret.value) = 9000
  /\ \E t \in KeysOf(args.knowledgeState) :
       /\ AttemptsOn(t, args.sessionHistory) > 0
       /\ PrereqsSatisfied(t, args.knowledgeState)
       /\ ObjGet(args.knowledgeState, t) = 0


AttemptedTopics(session) ==
  { session.questionHistory[k].topic : k \in 1..Len(session.questionHistory) }

\* C28: for every attempted topic that has a knowledge-state entry, the
\* entry of the per-topic streak map equals the streak stored in the
\* knowledge-state entry.
X_C28_StreakMapAgrees ==
  \A i \in 1..Len(sessions) :
    \A k \in 1..Len(sessions[i].knowledgeStates) :
      LET entry == sessions[i].knowledgeStates[k]
      IN  (entry.topic \in AttemptedTopics(sessions[i])
             /\ k = findKnowledgeState(sessions[i], entry.topic))
            => /\ entry.topic \in DOMAIN sessions[i].currentStreaks
               /\ sessions[i].currentStreaks[entry.topic] = entry.streak


\* C29: whenever POST /answer/evaluate or POST /submit-question answers
\* with success and a newMastery, the stored session of the user contains the
\* attempt as its newest record and stores that mastery for its topic.
X_C29_AnsweredMeansStored ==
  [][ (resp'.op \in {"answer/evaluate", "submit-question"} /\ resp'.status = 200)
        => \E i \in 1..Len(sessions) :
             /\ Recorded(i)
             /\ LET topic == LastAttempt(sessions'[i]).topic
                    k == findKnowledgeState(sessions'[i], topic)
                IN  /\ k # 0
                    /\ sessions'[i].knowledgeStates[k].mastery = resp'.newMastery
    ]_vars


\* the key of difficultyMultipliers that denotes the tier of a difficulty
MultiplierKey(difficulty) ==
  CASE TierOf(difficulty) = 1 -> "easy"
    [] TierOf(difficulty) = 3 -> "hard"
    [] OTHER -> "medium"

\* C30: every attempt POST /submit-question persists with a recorded
\* difficulty of tier hard (resp. easy) had its mastery increment scaled by
\* 1.4 (resp. 0.7): the stored mastery is the one calculateMasteryUpdate
\* yields under the multiplier key of that tier, from a mastery the request
\* can carry.
X_C30_RecordedTierScalesIncrement ==
  [][ resp'.op = "submit-question" =>
        \A i \in 1..Len(sessions) :
          Recorded(i) =>
            LET attempt == LastAttempt(sessions'[i])
                k == findKnowledgeState(sessions'[i], attempt.topic)
            IN  TierOf(attempt.difficulty) \in {1, 3} =>
                  \E currentMastery \in ClientMasteries :
                    sessions'[i].knowledgeStates[k].mastery =
                      calculateMasteryUpdate(currentMastery, attempt.score,
                                             MultiplierKey(attempt.difficulty))
    ]_vars

====
